---- MODULE Spec2Model ----
(***************************************************************************)
(* Order lifecycle reconciler of pyalgotrade.binance.livebroker.LiveBroker *)
(* together with the order-status normalisation of                         *)
(* pyalgotrade.binance.wsclient.OrderStateChange.                          *)
(*                                                                         *)
(* Quantities are integers (multiples of the instrument's size increment). *)
(* Every handler is one action: the whole method, including the calls it   *)
(* makes and the point at which an exception leaves it.                    *)
(***************************************************************************)
EXTENDS Integers, Sequences, FiniteSets, TLC

\* ------------------------------------------------------------- bounds
NumOrders == 1      \* order objects the caller or the venue holds
MaxQty == 2         \* quantity of every order, in size increments
MaxQueue == 1       \* trade matches waiting in the user trade queue
MaxBalance == 1     \* largest free amount the venue reports
MatchPrice == 100   \* price carried by trade matches and status pushes
MaxExecs == MaxQty  \* executions recorded per order
NumPrices == 1      \* price levels on each side of the order book
MaxSeq == 3         \* largest sequence number a snapshot or a delta carries
MaxSize == 2        \* largest size of a delta, of a snapshot level and of a book level
MaxBuffer == 2      \* stream updates the synchronizer holds while it waits for a snapshot

\* ------------------------------------------------------------- constants
FeeRate == 25       \* 0.0025, in units of 1/10000 of the notional

Orders == 1 .. NumOrders
NoOrder == 0
\* Venue order ids are opaque: the id the venue gives order o is written o,
\* and NumOrders + 1 is the id of somebody else's order.
Ids == 1 .. (NumOrders + 1)
NoId == 0
VenueId(o) == o
NoOei == [price |-> 0, size |-> 0, fee |-> 0, present |-> FALSE]

States == {"INITIAL", "SUBMITTED", "ACCEPTED", "PARTIALLY_FILLED",
           "FILLED", "CANCELED", "REJECTED"}
NoState == "NONE"
Types == {"LIMIT", "MARKET", "STOP"}
\* The trading pairs of the venue; the broker is configured with the first.
Symbol == "BTCUSD"
Instruments == {"BTCUSD", "BTCEUR"}
\* Order actions, and one that is none of them.
Actions == {"BUY", "BUY_TO_COVER", "SELL", "SELL_SHORT", "bogus"}
NoAction == "None"

\* ------------------------------------------------ pyalgotrade.broker.Order
\* Terminal states of the order state machine.
Terminal == {"FILLED", "CANCELED", "REJECTED"}

\* Initial -> Submitted -> Accepted -> (PartiallyFilled)* -> terminal;
\* a submitted order may also be canceled or rejected by the venue.
ValidTransitions(s) ==
    CASE s = "INITIAL" -> {"SUBMITTED"}
      [] s = "SUBMITTED" -> {"ACCEPTED", "CANCELED", "REJECTED"}
      [] s = "ACCEPTED" -> {"PARTIALLY_FILLED", "FILLED", "CANCELED", "REJECTED"}
      [] s = "PARTIALLY_FILLED" -> {"PARTIALLY_FILLED", "FILLED", "CANCELED", "REJECTED"}
      [] OTHER -> {}

isInitial(ord) == ord.state = "INITIAL"

isActive(ord) == ord.state \notin Terminal

isFilled(ord) == ord.state = "FILLED"

getRemaining(ord) == ord.quantity - ord.filled

\* switchState: an invalid transition is raised, the state is left as it was.
switchState(ord, newState) ==
    IF newState \in ValidTransitions(ord.state)
    THEN [ok |-> TRUE, order |-> [ord EXCEPT !.state = newState]]
    ELSE [ok |-> FALSE, order |-> ord]

\* addExecutionInfo: a fill larger than the remaining quantity is raised before
\* anything is recorded; otherwise the execution is appended, the filled
\* quantity grows by its size and the order switches to Filled when nothing
\* remains, to PartiallyFilled otherwise.
addExecutionInfo(ord, oei) ==
    IF oei.size > getRemaining(ord)
    THEN [ok |-> FALSE, order |-> ord]
    ELSE LET o1 == [ord EXCEPT !.filled = @ + oei.size,
                               !.execs = Append(@, oei)]
         IN switchState(o1, IF getRemaining(o1) = 0 THEN "FILLED"
                            ELSE "PARTIALLY_FILLED")

\* setSubmitted: the venue id is stored on the order.
setSubmitted(ord, newOrderId) == [ord EXCEPT !.id = newOrderId]

NewOrder(type) ==
    [type |-> type, instrument |-> Symbol, state |-> "INITIAL", id |-> NoId,
     quantity |-> MaxQty, filled |-> 0, execs |-> <<>>, allOrNone |-> FALSE,
     goodTillCanceled |-> FALSE]

\* An order resting at the venue before the broker starts.
OpenOrder(id) ==
    [type |-> "LIMIT", instrument |-> Symbol, state |-> "ACCEPTED", id |-> VenueId(id),
     quantity |-> MaxQty, filled |-> 0, execs |-> <<>>, allOrNone |-> FALSE,
     goodTillCanceled |-> TRUE]

\* ------------------------------------------------- order book: data
Prices == 1 .. NumPrices
Sides == {"Bid", "Ask"}
Kinds == {"Assign", "Increase", "Decrease"}

\* A book: each side maps the prices of its levels to their sizes.
EmptyBook == [bids |-> <<>>, asks |-> <<>>, sequence |-> 0]

Delta(kind, seq, price, size, side) ==
    [kind |-> kind, seq |-> seq, price |-> price, size |-> size, side |-> side]

\* MarketUpdate(data=bms): the deltas of one stream message.
MarketUpdate(bms) == [data |-> bms]
NoUpdate == MarketUpdate(<<>>)

\* The json of a stream message, as far as onMessage and toBookMessages read it.
StreamMessages ==
    [e : {"depthUpdate"}, type : {"received", "open", "done", "match", "bogus"},
     order_type : {"limit", "market"}, side : {"buy", "sell", "bogus"},
     price : Prices, size : 1 .. MaxSize, sequence : 1 .. MaxSeq]
    \cup [e : {"trade", "bogus"}, type : {"match"}, order_type : {"limit"},
          side : {"buy"}, price : Prices, size : {1}, sequence : 1 .. MaxSeq]

\* The levels of one side in a REST book: any subset of the prices, each with a
\* positive size.
SideLevels ==
    UNION {[ps -> 1 .. MaxSize] : ps \in SUBSET Prices}

\* Replies of BinanceRest.book: a failure, or a sequence and the two sides.
BookReplies ==
    {[ok |-> FALSE, sequence |-> 0, bids |-> <<>>, asks |-> <<>>]}
    \cup [ok : {TRUE}, sequence : 1 .. MaxSeq, bids : SideLevels, asks : SideLevels]

\* ------------------------------------------------- netclients
RECURSIVE LevelsToAssigns(_, _, _, _)
LevelsToAssigns(levels, side, rts, p) ==
    IF p > NumPrices THEN <<>>
    ELSE (IF p \in DOMAIN levels
          THEN <<Delta("Assign", rts, p, levels[p], side)>> ELSE <<>>)
         \o LevelsToAssigns(levels, side, rts, p + 1)

\* BinanceRest.book_snapshot: one Assign per level, bids first, all tagged with
\* the sequence of the REST book.
book_snapshot(reply) ==
    [data |-> LevelsToAssigns(reply.bids, "Bid", reply.sequence, 1)
              \o LevelsToAssigns(reply.asks, "Ask", reply.sequence, 1)]

\* toBookMessages: the deltas of one venue message, or a ValueError.
toBookMessages(json) ==
    IF json.type = "received" THEN [ok |-> TRUE, bms |-> <<>>]
    ELSE IF json.type = "done" /\ json.order_type = "market"
    THEN [ok |-> TRUE, bms |-> <<>>]
    ELSE IF json.side \notin {"buy", "sell"} THEN [ok |-> FALSE, bms |-> <<>>]
    ELSE LET side == IF json.side = "buy" THEN "Bid" ELSE "Ask" IN
         IF json.type \in {"done", "match"}
         THEN [ok |-> TRUE, bms |-> <<Delta("Decrease", json.sequence, json.price,
                                             json.size, side)>>]
         ELSE IF json.type = "open"
         THEN [ok |-> TRUE, bms |-> <<Delta("Increase", json.sequence, json.price,
                                             json.size, side)>>]
         ELSE [ok |-> FALSE, bms |-> <<>>]

\* ------------------------------------------------- pyalgotrade.orderbook.OrderBook
LevelSize(levels, price) == IF price \in DOMAIN levels THEN levels[price] ELSE 0

\* Faulty variant: only a level of exactly zero is removed
SetLevelMut(levels, price, size) ==
    IF size = 0
    THEN [p \in DOMAIN levels \ {price} |-> levels[p]]
    ELSE [p \in DOMAIN levels \cup {price} |-> IF p = price THEN size ELSE levels[p]]

SetLevel(levels, price, size) ==
    IF size <= 0
    THEN [p \in DOMAIN levels \ {price} |-> levels[p]]
    ELSE [p \in DOMAIN levels \cup {price} |-> IF p = price THEN size ELSE levels[p]]

\* apply(delta): Assign sets the level, Increase adds to it, Decrease subtracts
\* from it; a level that reaches zero or would go below it is removed. The
\* sequence only moves forward.
ApplyDelta(bk, d) ==
    LET levels == IF d.side = "Bid" THEN bk.bids ELSE bk.asks
        cur == LevelSize(levels, d.price)
        size == CASE d.kind = "Assign" -> d.size
                  [] d.kind = "Increase" -> cur + d.size
                  [] d.kind = "Decrease" -> cur - d.size
        new == SetLevel(levels, d.price, size)
        seq == IF d.seq > bk.sequence THEN d.seq ELSE bk.sequence
    IN IF d.side = "Bid" THEN [bk EXCEPT !.bids = new, !.sequence = seq]
       ELSE [bk EXCEPT !.asks = new, !.sequence = seq]

RECURSIVE ApplyDeltas(_, _)
ApplyDeltas(bk, ds) ==
    IF ds = <<>> THEN bk ELSE ApplyDeltas(ApplyDelta(bk, Head(ds)), Tail(ds))

\* OrderBook.update with the deltas of a stream update.
BookUpdate(bk, u) == ApplyDeltas(bk, u.data)

\* OrderBook.update with a snapshot: both sides are replaced.
BookReplace(bk, syncdata) ==
    ApplyDeltas([bids |-> <<>>, asks |-> <<>>, sequence |-> bk.sequence], syncdata.data)

\* ------------------------------------------------- WebSocketClient / StreamSynchronizer
Emit(b, name) == [b EXCEPT !.events = Append(@, name)]

WsOk(b, outcome) == [b |-> b, ret |-> "ok", outcome |-> outcome]

WsRaise(b, outcome) == [b |-> b, ret |-> "raised", outcome |-> outcome]

\* ts_from_stream = lambda m: m.U
ts_from_stream(u) == IF u.data = <<>> THEN 0 ELSE Head(u.data).seq

\* Faulty variant: an update as old as the last applied one counts as newer
stream_newer_than_tsMut(ts, u) == u.data # <<>> /\ ts_from_stream(u) >= ts

\* stream_newer_than_ts = lambda ts, m: m.data and ts_from_stream(m) > ts
stream_newer_than_ts(ts, u) == u.data # <<>> /\ ts_from_stream(u) > ts

\* WebSocketClient._apply_update
_apply_update(b, u) ==
    Emit([b EXCEPT !.book = BookUpdate(@, u)], "ON_ORDER_BOOK_UPDATE")

\* Faulty variant: the sequence of the snapshot is not handed back
_apply_fullMut(b, syncdata) ==
    LET b1 == [b EXCEPT !.book = BookReplace(@, syncdata)] IN
    IF syncdata.data = <<>> THEN [b |-> b1, ok |-> FALSE, ts |-> 0]
    ELSE [b |-> b1, ok |-> TRUE, ts |-> 0]

\* WebSocketClient._apply_full: the book takes the snapshot; the sequence of its
\* first delta is returned (an empty snapshot has none: IndexError).
_apply_full(b, syncdata) ==
    LET b1 == [b EXCEPT !.book = BookReplace(@, syncdata)] IN
    IF syncdata.data = <<>> THEN [b |-> b1, ok |-> FALSE, ts |-> 0]
    ELSE [b |-> b1, ok |-> TRUE, ts |-> Head(syncdata.data).seq]

\* The buffered update with the smallest sequence.
Oldest(buffer) ==
    CHOOSE i \in 1 .. Len(buffer) :
        \A j \in 1 .. Len(buffer) :
            \/ ts_from_stream(buffer[i]) < ts_from_stream(buffer[j])
            \/ (ts_from_stream(buffer[i]) = ts_from_stream(buffer[j]) /\ i <= j)

Without(buffer, i) == SubSeq(buffer, 1, i - 1) \o SubSeq(buffer, i + 1, Len(buffer))

\* The held-back updates, oldest first: one that is newer than what was applied
\* last is applied, the others are discarded.
RECURSIVE Replay(_)
Replay(b) ==
    IF b.buffer = <<>> THEN b
    ELSE LET i == Oldest(b.buffer)
             u == b.buffer[i]
             b1 == [b EXCEPT !.buffer = Without(@, i)]
         IN IF stream_newer_than_ts(b1.ts, u)
            THEN Replay([_apply_update(b1, u) EXCEPT !.ts = ts_from_stream(u)])
            ELSE Replay(b1)

\* StreamSynchronizer.submit_syncdata: apply the snapshot, replay the buffer,
\* go LIVE.
submit_syncdata(b, syncdata) ==
    LET f == _apply_full(b, syncdata) IN
    IF ~f.ok THEN WsRaise(f.b, "snapshot empty")
    ELSE WsOk([Replay([f.b EXCEPT !.ts = f.ts]) EXCEPT !.state = "LIVE"], "synced")

\* StreamSynchronizer.submit_streamdata: hold the update back while SYNCING;
\* when LIVE apply it if it is newer than what was applied last, else drop it.
submit_streamdata(b, u) ==
    IF b.state = "SYNCING"
    THEN WsOk([b EXCEPT !.buffer = Append(@, u)], "buffered")
    ELSE IF stream_newer_than_ts(b.ts, u)
         THEN WsOk([_apply_update(b, u) EXCEPT !.ts = ts_from_stream(u)], "applied")
         ELSE WsOk(b, "dropped")

\* WebSocketClient.onOpened
onOpened(b, reply) ==
    LET b1 == [Emit(b, "ON_CONNECTED") EXCEPT
                  !.book = EmptyBook, !.state = "SYNCING", !.ts = 0, !.buffer = <<>>,
                  !.calls = Append(@, [name |-> "book_snapshot", ok |-> reply.ok])]
    IN IF ~reply.ok THEN WsRaise(b1, "snapshot failed")
       ELSE submit_syncdata(b1, book_snapshot(reply))

\* WebSocketClient.onMessage
onMessage(b, m) ==
    IF m.e = "depthUpdate"
    THEN LET t == toBookMessages(m) IN
         IF ~t.ok THEN WsRaise(b, "ValueError")
         ELSE submit_streamdata(b, MarketUpdate(t.bms))
    ELSE IF m.e = "trade"
    THEN WsOk(Emit(Emit(b, "ON_MATCH"), "ON_TRADE"), "trade")
    ELSE WsOk(b, "unknown stream")

\* ------------------------------------------------------------- state
VARIABLES
    orders,          \* order object -> its fields
    activeOrders,    \* LiveBroker.__activeOrders: venue id -> order (NoOrder: absent)
    cash,            \* LiveBroker.__cash
    shares,          \* LiveBroker.__shares[symbol]
    stop,            \* LiveBroker.__stop
    userTradeQueue,  \* LiveBroker.__userTradeQueue
    phase,           \* "new", "startFailed", "running", "stopped", "joined"
    announced,       \* orders for which an event of a terminal type was emitted
    last,            \* the operation just performed: inputs (for dispatch the match it
                     \* took from the queue), outcome, events, gateway calls
    book,            \* WebSocketClient._book
    syncState,       \* StreamSynchronizer: "NONE" before onOpened, "SYNCING", "LIVE"
    syncTs,          \* StreamSynchronizer: sequence of what was applied last
    syncBuffer,      \* StreamSynchronizer: stream updates held back while SYNCING
    wsLast           \* the websocket callback just run: its message, outcome, events
                     \* and REST calls, and the updates the synchronizer held before it

brokerVars == <<orders, activeOrders, cash, shares, stop, userTradeQueue, phase,
                announced, last>>

bookVars == <<book, syncState, syncTs, syncBuffer, wsLast>>

vars == <<brokerVars, bookVars>>

\* The broker's fields as one value, with the events emitted and the gateway
\* calls made so far by the running operation.
Machine ==
    [orders |-> orders, active |-> activeOrders, cash |-> cash,
     shares |-> shares, stop |-> stop, queue |-> userTradeQueue,
     events |-> <<>>, calls |-> <<>>]

\* The websocket client's book and synchronizer as one value, with the events
\* put on its queue and the REST calls made by the running callback.
WsMachine ==
    [book |-> book, state |-> syncState, ts |-> syncTs, buffer |-> syncBuffer,
     events |-> <<>>, calls |-> <<>>]

ActiveIds(active) == {i \in Ids : active[i] # NoOrder}

Registered(active, o) == \E i \in Ids : active[i] = o

\* ------------------------------------------------------------- inputs
\* Gateway replies: a failure (the call raises) or a value.
BalanceReplies ==
    {[ok |-> FALSE, usd |-> 0, asset |-> 0]}
    \cup {[ok |-> TRUE, usd |-> u, asset |-> u] : u \in 0 .. MaxBalance}

PlaceReplies(o) == {[ok |-> FALSE, id |-> NoId], [ok |-> TRUE, id |-> VenueId(o)]}

\* Trade matches: the order ids of the two sides (json 'a' and 'b') and the size.
Matches == {m \in [a : Ids, b : Ids, price : {MatchPrice}, size : 1 .. (MaxQty + 1)] :
               m.a # m.b}

NoMatch == [a |-> NoId, b |-> NoId, price |-> 0, size |-> 0]

\* remaining_size of a venue order push: absent, or a decimal text and the
\* number float() reads from it.
RemainingSizes ==
    {[present |-> FALSE, text |-> "", val |-> 0],
     [present |-> TRUE, text |-> "0", val |-> 0],
     [present |-> TRUE, text |-> "0.0", val |-> 0]}
    \cup {[present |-> TRUE, text |-> "n", val |-> n] : n \in 1 .. (MaxQty - 1)}

\* Venue order pushes (the json of OrderStateChange): 'received' and 'open'
\* carry no reason, 'done' carries a reason and possibly a remaining size.
Changes ==
    [order_id : Ids, type : {"received", "open"}, reason : {""},
     remaining_size : {[present |-> FALSE, text |-> "", val |-> 0]},
     price : {MatchPrice}]
    \cup [order_id : Ids, type : {"done"}, reason : {"filled", "canceled"},
          remaining_size : RemainingSizes, price : {MatchPrice}]
NoChange ==
    [order_id |-> NoId, type |-> "", reason |-> "",
     remaining_size |-> [present |-> FALSE, text |-> "", val |-> 0], price |-> 0]

\* The arguments of an order factory call: the action and the instrument.
Requests == [action : Actions, instrument : Instruments]
NoRequest == [action |-> NoAction, instrument |-> ""]

\* filled_size of a venue order record: a decimal text and the number float()
\* reads from it.
FilledSizes ==
    {[text |-> "0", val |-> 0], [text |-> "0.0", val |-> 0]}
    \cup {[text |-> "n", val |-> n] : n \in 1 .. MaxQty}

\* Venue order records handed to applyUpdate (None: present is FALSE).
VenueOrders ==
    {[present |-> FALSE, status |-> "", done_reason |-> "",
      filled_size |-> [text |-> "0", val |-> 0], price |-> 0, fill_fees |-> 0]}
    \cup [present : {TRUE}, status : {"rejected", "open", "pending"}, done_reason : {""},
          filled_size : {[text |-> "0", val |-> 0]}, price : {MatchPrice},
          fill_fees : {0}]
    \cup [present : {TRUE}, status : {"done"}, done_reason : {"canceled", "filled"},
          filled_size : FilledSizes, price : {MatchPrice}, fill_fees : {0}]

\* ------------------------------------------------ wsclient.OrderStateChange
new_state(json) ==
    IF json.type = "received" THEN "ACCEPTED"
    ELSE IF json.type = "done"
         THEN IF json.reason = "filled" /\ json.remaining_size.present
                 /\ json.remaining_size.text = "0"
              THEN "FILLED" ELSE "CANCELED"
         ELSE NoState

event_type(json) == new_state(json)

oei(json, ord) ==
    IF json.reason # "filled" THEN NoOei
    ELSE LET ounfilled == ord.quantity - ord.filled
             sizeleft == IF json.remaining_size.present
                         THEN json.remaining_size.val ELSE 0
         IN [price |-> json.price, size |-> ounfilled - sizeleft, fee |-> 0,
             present |-> TRUE]

\* Faulty variant: only the first side of the match is looked up
involvesMut(match, oidlist) == IF match.a \in oidlist THEN match.a ELSE NoId

\* BinanceMatch.involves
involves(match, oidlist) ==
    IF match.a \in oidlist THEN match.a
    ELSE IF match.b \in oidlist THEN match.b ELSE NoId

\* ------------------------------------------------------- LiveBroker helpers
Ok(m) == [m |-> m, ret |-> "ok", err |-> ""]

Raise(m, err) == [m |-> m, ret |-> "raised", err |-> err]

Call(m, name, ok) == [m EXCEPT !.calls = Append(@, [name |-> name, ok |-> ok])]

\* notifyOrderEvent: the event, with what an observer sees of the order at
\* the moment it is emitted.
notifyOrderEvent(m, o, type, info) ==
    [m EXCEPT !.events = Append(@,
        [order |-> o, type |-> type, oei |-> info,
         state |-> m.orders[o].state, id |-> m.orders[o].id,
         registered |-> Registered(m.active, o)])]

\* Faulty variant: an id already in the map is overwritten without complaint
_registerOrderMut(m, o) ==
    LET id == m.orders[o].id IN
    IF id = NoId THEN Raise(m, "assertion")
    ELSE Ok([m EXCEPT !.active[id] = o])

_registerOrder(m, o) ==
    LET id == m.orders[o].id IN
    IF id = NoId \/ m.active[id] # NoOrder
    THEN Raise(m, "assertion")
    ELSE Ok([m EXCEPT !.active[id] = o])

_unregisterOrder(m, o) ==
    LET id == m.orders[o].id IN
    IF id = NoId \/ m.active[id] = NoOrder
    THEN Raise(m, "assertion")
    ELSE Ok([m EXCEPT !.active[id] = NoOrder])

\* Faulty variant: the stop flag is not raised before the gateway is asked
refreshAccountBalanceMut(m, bal) ==
    LET m1 == Call(m, "balances", bal.ok) IN
    IF ~bal.ok THEN Raise(m1, "gateway")
    ELSE Ok([m1 EXCEPT !.cash = bal.usd, !.shares = bal.asset, !.stop = FALSE])

refreshAccountBalance(m, bal) ==
    LET m1 == Call([m EXCEPT !.stop = TRUE], "balances", bal.ok) IN
    IF ~bal.ok THEN Raise(m1, "gateway")
    ELSE Ok([m1 EXCEPT !.cash = bal.usd, !.shares = bal.asset, !.stop = FALSE])

fees(ord, match) ==
    IF ord.type = "LIMIT" THEN 0 ELSE FeeRate * match.price * match.size

\* ------------------------------------------------------- LiveBroker.submitOrder
\* Faulty variant: the order is switched to SUBMITTED before the gateway is called
SubmitOverridesMut(ord) ==
    [ord EXCEPT !.allOrNone = FALSE, !.goodTillCanceled = TRUE, !.state = "SUBMITTED"]

\* Override user settings (setAllOrNone(False), setGoodTillCanceled(True)).
SubmitOverrides(ord) == [ord EXCEPT !.allOrNone = FALSE, !.goodTillCanceled = TRUE]

\* Faulty variant: a submitted order is accepted for submission again
SubmitGuardMut(ord) == ord.state \in {"INITIAL", "SUBMITTED"}

\* The order is submitted only from the Initial state.
SubmitGuard(ord) == isInitial(ord)

\* Faulty variant: SUBMITTED is emitted before the order is registered and switched
SubmitCommitMut(m, o, newOrderId) ==
    LET m1 == notifyOrderEvent([m EXCEPT !.orders[o] = setSubmitted(@, newOrderId)],
                               o, "SUBMITTED", NoOei)
        r == _registerOrder(m1, o)
    IN IF r.ret = "raised" THEN r
       ELSE LET s == switchState(r.m.orders[o], "SUBMITTED") IN
            IF ~s.ok THEN Raise(r.m, "invalid transition")
            ELSE Ok([r.m EXCEPT !.orders[o] = s.order])

\* After the gateway returned newOrderId: store the id, register, switch
\* INITIAL -> SUBMITTED, then emit SUBMITTED.
SubmitCommit(m, o, newOrderId) ==
    LET m1 == [m EXCEPT !.orders[o] = setSubmitted(@, newOrderId)]
        r == _registerOrder(m1, o)
    IN IF r.ret = "raised" THEN r
       ELSE LET s == switchState(r.m.orders[o], "SUBMITTED")
                m2 == [r.m EXCEPT !.orders[o] = s.order]
            IN IF ~s.ok THEN Raise(m2, "invalid transition")
               ELSE Ok(notifyOrderEvent(m2, o, "SUBMITTED", NoOei))

submitOrder(m, o, gw) ==
    IF SubmitGuard(m.orders[o])
    THEN LET m1 == [m EXCEPT !.orders[o] = SubmitOverrides(@)]
             type == m1.orders[o].type
         IN IF type \in {"LIMIT", "MARKET"}
            THEN LET m2 == Call(m1, IF type = "LIMIT" THEN "limitorder"
                                    ELSE "marketorder", gw.ok)
                 IN IF ~gw.ok THEN Raise(m2, "gateway")
                    ELSE SubmitCommit(m2, o, gw.id)
            ELSE Raise(m1, "unsupported type")
    ELSE Raise(m, "already processed")

\* ------------------------------------------------------- LiveBroker._createOrder
\* BUY_TO_COVER is mapped to BUY and SELL_SHORT to SELL; anything else is None.
MapAction(action) ==
    CASE action \in {"BUY_TO_COVER", "BUY"} -> "BUY"
      [] action \in {"SELL_SHORT", "SELL"} -> "SELL"
      [] OTHER -> NoAction

\* _createOrder: the instrument and the action are checked, then the instrument
\* traits are read from the gateway and the order is built (quantity and price
\* are rounded by the traits). ret tells what is returned: an order of the type
\* asked for, or None for a type that is neither Market nor Limit.
_createOrder(m, orderType, request, traitsOk) ==
    IF request.instrument # Symbol THEN Raise(m, "unsupported instrument")
    ELSE IF MapAction(request.action) = NoAction THEN Raise(m, "unsupported action")
    ELSE LET m1 == Call(m, "instrumentTraits", traitsOk) IN
         IF ~traitsOk THEN Raise(m1, "gateway")
         ELSE IF orderType \in {"MARKET", "LIMIT"}
         THEN [m |-> m1, ret |-> orderType, err |-> ""]
         ELSE [m |-> m1, ret |-> "None", err |-> ""]

createMarketOrder(m, request, traitsOk) == _createOrder(m, "MARKET", request, traitsOk)

createLimitOrder(m, request, traitsOk) == _createOrder(m, "LIMIT", request, traitsOk)

createStopOrder(m, request) == Raise(m, "Stop orders are not supported")

createStopLimitOrder(m, request) == Raise(m, "Stop limit orders are not supported")

\* ------------------------------------------------------- LiveBroker.cancelOrder
\* Faulty variant: the filled check is missing
CancelRefusalMut(m, o) ==
    LET id == m.orders[o].id
        activeOrder == IF id \in Ids THEN m.active[id] ELSE NoOrder
    IN IF activeOrder = NoOrder THEN "not active" ELSE ""

\* The check that refuses the cancel: "" when the cancel may be sent.
CancelRefusal(m, o) ==
    LET id == m.orders[o].id
        activeOrder == IF id \in Ids THEN m.active[id] ELSE NoOrder
    IN IF activeOrder = NoOrder THEN "not active"
       ELSE IF isFilled(m.orders[activeOrder]) THEN "already filled"
       ELSE ""

\* Faulty variant: the order is unregistered as soon as the cancel request is sent
cancelOrderMut(m, o, gwOk) ==
    LET why == CancelRefusal(m, o) IN
    IF why # "" THEN Raise(m, why)
    ELSE LET m1 == Call(m, "cancelOrder", gwOk) IN
         IF ~gwOk THEN Raise(m1, "gateway") ELSE _unregisterOrder(m1, o)

cancelOrder(m, o, gwOk) ==
    LET why == CancelRefusal(m, o) IN
    IF why # "" THEN Raise(m, why)
    ELSE LET m1 == Call(m, "cancelOrder", gwOk) IN
         IF ~gwOk THEN Raise(m1, "gateway")
         ELSE Ok(m1)

\* ------------------------------------------------------- LiveBroker._onUserTrade
\* Faulty variant: a filled order is left in the registry
TradeHousekeepingMut(m, o) == Ok(m)

\* Housekeeping after the fill: an order that is no longer active leaves
\* the registry.
TradeHousekeeping(m, o) ==
    IF ~isActive(m.orders[o]) THEN _unregisterOrder(m, o) ELSE Ok(m)

TradeEventType(ord) == IF isFilled(ord) THEN "FILLED" ELSE "PARTIALLY_FILLED"

_onUserTrade(m, match, bal) ==
    LET oid == involves(match, ActiveIds(m.active)) IN
    IF oid = NoId THEN [m |-> m, ret |-> "False", err |-> ""]
    ELSE LET o == m.active[oid]
             r1 == refreshAccountBalance(m, bal)
         IN IF r1.ret = "raised" THEN r1
            ELSE LET info == [price |-> match.price, size |-> match.size,
                              fee |-> fees(r1.m.orders[o], match), present |-> TRUE]
                     a == addExecutionInfo(r1.m.orders[o], info)
                     m2 == [r1.m EXCEPT !.orders[o] = a.order]
                 IN IF ~a.ok THEN Raise(m2, "invalid fill")
                    ELSE LET r3 == TradeHousekeeping(m2, o) IN
                         IF r3.ret = "raised" THEN r3
                         ELSE [m |-> notifyOrderEvent(r3.m, o,
                                        TradeEventType(r3.m.orders[o]), info),
                               ret |-> "True", err |-> ""]

\* Faulty variant: the result of _onUserTrade is dropped, evented stays False
dispatchMut(m, bal) ==
    IF m.queue = <<>> THEN [m |-> m, ret |-> "False", err |-> ""]
    ELSE LET r == _onUserTrade([m EXCEPT !.queue = Tail(@)], Head(m.queue), bal)
         IN [r EXCEPT !.ret = IF @ = "True" THEN "False" ELSE @]

\* LiveBroker.dispatch: a bounded-wait receive; an empty queue is a no-event tick.
dispatch(m, bal) ==
    IF m.queue = <<>> THEN [m |-> m, ret |-> "False", err |-> ""]
    ELSE _onUserTrade([m EXCEPT !.queue = Tail(@)], Head(m.queue), bal)

\* Faulty variant: every match is queued, whoever it involves
onMatchEventMut(m, match) == Ok([m EXCEPT !.queue = Append(@, match)])

\* LiveBroker.onMatchEvent: queue the match when it involves an active order.
onMatchEvent(m, match) ==
    IF involves(match, ActiveIds(m.active)) # NoId
    THEN Ok([m EXCEPT !.queue = Append(@, match)])
    ELSE Ok(m)

\* ------------------------------------------------------- LiveBroker.onChangeEvent
\* Faulty variant: the no-op state value is not filtered out
ChangeIgnoredMut(m, change) == m.active[change.order_id] = NoOrder

\* Unknown order ids and no-op state values are ignored.
ChangeIgnored(m, change) ==
    m.active[change.order_id] = NoOrder \/ new_state(change) = NoState

\* The change's own execution info is appended; when the order is then not yet
\* in the new state, an event carrying the execution is emitted.
ChangeExecution(m, o, change) ==
    LET info == oei(change, m.orders[o]) IN
    IF ~info.present THEN [m |-> m, ret |-> "ok", err |-> "", oei |-> info]
    ELSE LET a == addExecutionInfo(m.orders[o], info)
             m1 == [m EXCEPT !.orders[o] = a.order]
         IN IF ~a.ok
            THEN [m |-> m1, ret |-> "raised", err |-> "invalid fill", oei |-> info]
            ELSE IF new_state(change) # m1.orders[o].state
                 THEN [m |-> notifyOrderEvent(m1, o, event_type(change), info),
                       ret |-> "ok", err |-> "", oei |-> NoOei]
                 ELSE [m |-> m1, ret |-> "ok", err |-> "", oei |-> info]

\* The state switch, when the order is not yet in the new state, and the
\* notification that follows it.
ChangeSwitchAndNotify(m, o, change, info) ==
    LET newstate == new_state(change)
        s == IF newstate # m.orders[o].state
             THEN switchState(m.orders[o], newstate)
             ELSE [ok |-> TRUE, order |-> m.orders[o]]
        m1 == [m EXCEPT !.orders[o] = s.order]
    IN IF ~s.ok THEN Raise(m1, "invalid transition")
       ELSE Ok(notifyOrderEvent(m1, o, event_type(change), info))

\* An order that is no longer active leaves the registry and the balances
\* are refreshed.
ChangeCleanup(m, o, bal) ==
    IF ~isActive(m.orders[o])
    THEN LET r == _unregisterOrder(m, o) IN
         IF r.ret = "raised" THEN r ELSE refreshAccountBalance(r.m, bal)
    ELSE Ok(m)

onChangeEvent(m, change, bal) ==
    IF ChangeIgnored(m, change) THEN Ok(m)
    ELSE LET o == m.active[change.order_id]
             r1 == ChangeExecution(m, o, change)
         IN IF r1.ret = "raised" THEN Raise(r1.m, r1.err)
            ELSE LET r2 == ChangeSwitchAndNotify(r1.m, o, change, r1.oei) IN
                 IF r2.ret = "raised" THEN r2
                 ELSE ChangeCleanup(r2.m, o, bal)

\* ------------------------------------------------------- LiveBroker.applyUpdate
\* _CBOrderOEI: the execution a venue order record reports.
_CBOrderOEI(cborder) ==
    [price |-> cborder.price, size |-> cborder.filled_size.val,
     fee |-> cborder.fill_fees, present |-> TRUE]

\* switchState(newState) followed by the event of that type, without execution.
SwitchAndNotify(m, o, newState) ==
    LET s == switchState(m.orders[o], newState) IN
    IF ~s.ok THEN Raise(m, "invalid transition")
    ELSE Ok(notifyOrderEvent([m EXCEPT !.orders[o] = s.order], o, newState, NoOei))

\* addExecutionInfo(_CBOrderOEI(cborder)) on order o.
AddReportedExecution(m, o, cborder) ==
    LET a == addExecutionInfo(m.orders[o], _CBOrderOEI(cborder))
        m1 == [m EXCEPT !.orders[o] = a.order]
    IN IF a.ok THEN Ok(m1) ELSE Raise(m1, "invalid fill")

applyUpdate(m, o, cborder) ==
    IF ~cborder.present \/ cborder.status = "rejected"
    THEN LET r == _unregisterOrder(m, o) IN
         IF r.ret = "raised" THEN r ELSE SwitchAndNotify(r.m, o, "CANCELED")
    ELSE IF cborder.status = "open" THEN SwitchAndNotify(m, o, "ACCEPTED")
    ELSE IF cborder.status = "done"
    THEN IF cborder.done_reason = "canceled"
         THEN LET r == IF cborder.filled_size.text # "0"
                       THEN AddReportedExecution(m, o, cborder) ELSE Ok(m)
              IN IF r.ret = "raised" THEN r ELSE SwitchAndNotify(r.m, o, "CANCELED")
         ELSE IF cborder.done_reason = "filled"
         THEN LET r == AddReportedExecution(m, o, cborder) IN
              IF r.ret = "raised" THEN r
              ELSE Ok(notifyOrderEvent(r.m, o, "FILLED", NoOei))
         ELSE Raise(m, "unknown done reason")
    ELSE Raise(m, "unknown order status")

\* ------------------------------------------------------- LiveBroker.start / stop
RECURSIVE RegisterAll(_, _)
RegisterAll(m, openOrders) ==
    IF openOrders = <<>> THEN Ok(m)
    ELSE LET r == _registerOrder(m, Head(openOrders)) IN
         IF r.ret = "raised" THEN r ELSE RegisterAll(r.m, Tail(openOrders))

\* The venue's open orders for the symbol, as the gateway lists them.
RECURSIVE VenueOpenOrders(_, _)
VenueOpenOrders(os, n) ==
    IF n > NumOrders THEN <<>>
    ELSE (IF os[n].id # NoId /\ isActive(os[n]) THEN <<n>> ELSE <<>>)
         \o VenueOpenOrders(os, n + 1)

\* Faulty variant: the stop flag is not raised before the open orders are fetched
refreshOpenOrdersMut(m, gwOk) ==
    LET m1 == Call(m, "OpenOrders", gwOk) IN
    IF ~gwOk THEN Raise(m1, "gateway")
    ELSE LET r == RegisterAll(m1, VenueOpenOrders(m1.orders, 1)) IN
         IF r.ret = "raised" THEN r ELSE Ok([r.m EXCEPT !.stop = FALSE])

refreshOpenOrders(m, gwOk) ==
    LET m1 == Call([m EXCEPT !.stop = TRUE], "OpenOrders", gwOk) IN
    IF ~gwOk THEN Raise(m1, "gateway")
    ELSE LET r == RegisterAll(m1, VenueOpenOrders(m1.orders, 1)) IN
         IF r.ret = "raised" THEN r ELSE Ok([r.m EXCEPT !.stop = FALSE])

_startTradeMonitor(m, monOk) ==
    LET m1 == Call([m EXCEPT !.stop = TRUE], "tradeMonitor.start", monOk) IN
    IF ~monOk THEN Raise(m1, "monitor") ELSE Ok([m1 EXCEPT !.stop = FALSE])

\* Faulty variant: the trade monitor is started before the open orders are registered
startMut(m, bal, gwOk, monOk) ==
    LET r1 == refreshAccountBalance(m, bal) IN
    IF r1.ret = "raised" THEN r1
    ELSE LET r2 == _startTradeMonitor(r1.m, monOk) IN
         IF r2.ret = "raised" THEN r2 ELSE refreshOpenOrders(r2.m, gwOk)

start(m, bal, gwOk, monOk) ==
    LET r1 == refreshAccountBalance(m, bal) IN
    IF r1.ret = "raised" THEN r1
    ELSE LET r2 == refreshOpenOrders(r1.m, gwOk) IN
         IF r2.ret = "raised" THEN r2 ELSE _startTradeMonitor(r2.m, monOk)

eof == stop

\* ------------------------------------------------------------- actions
DoneOf(op, o, change, request, match, r) ==
    /\ \A x \in Orders : Len(r.m.orders[x].execs) <= MaxExecs
    /\ orders' = r.m.orders
    /\ activeOrders' = r.m.active
    /\ cash' = r.m.cash
    /\ shares' = r.m.shares
    /\ stop' = r.m.stop
    /\ userTradeQueue' = r.m.queue
    /\ announced' = announced \cup
          {r.m.events[i].order : i \in {j \in 1 .. Len(r.m.events) :
                                           r.m.events[j].type \in Terminal}}
    /\ last' = [op |-> op, order |-> o, change |-> change, request |-> request,
                match |-> match, ret |-> r.ret, err |-> r.err, events |-> r.m.events,
                calls |-> r.m.calls]
    /\ UNCHANGED bookVars

Done(op, o, change, r) == DoneOf(op, o, change, NoRequest, NoMatch, r)

\* LiveBroker.__init__, with the orders in pre resting at the venue.
BrokerInit(pre, types) ==
    /\ orders = [o \in Orders |-> IF o \in pre THEN OpenOrder(o)
                                   ELSE NewOrder(types[o])]
    /\ activeOrders = [i \in Ids |-> NoOrder]
    /\ cash = 0
    /\ shares = 0
    /\ stop = FALSE
    /\ userTradeQueue = <<>>
    /\ phase = "new"
    /\ announced = {}
    /\ last = [op |-> "init", order |-> NoOrder, change |-> NoChange,
               request |-> NoRequest, match |-> NoMatch, ret |-> "ok", err |-> "",
               events |-> <<>>, calls |-> <<>>]

\* WebSocketClient.__init__: no book and no synchronizer before onOpened.
BookInit ==
    /\ book = EmptyBook
    /\ syncState = "NONE"
    /\ syncTs = 0
    /\ syncBuffer = <<>>
    /\ wsLast = [op |-> "init", shape |-> "", update |-> NoUpdate, outcome |-> "",
                 ret |-> "ok", events |-> <<>>, calls |-> <<>>, held |-> <<>>]

Init ==
    /\ \E pre \in SUBSET Orders : \E types \in [Orders -> Types] :
          BrokerInit(pre, types)
    /\ BookInit

Start ==
    /\ phase = "new"
    /\ \E bal \in BalanceReplies : \E gwOk \in BOOLEAN : \E monOk \in BOOLEAN :
          LET r == start(Machine, bal, gwOk, monOk) IN
          /\ Done("start", NoOrder, NoChange, r)
          /\ phase' = IF r.ret = "raised" THEN "startFailed" ELSE "running"

\* stop(): the flag is set and the trade monitor is signalled; a monitor that
\* was started keeps delivering until it is joined.
Stop ==
    /\ phase \in {"startFailed", "running"}
    /\ Done("stop", NoOrder, NoChange, Ok([Machine EXCEPT !.stop = TRUE]))
    /\ phase' = IF phase = "running" THEN "stopped" ELSE "joined"

Join ==
    /\ phase = "stopped"
    /\ Done("join", NoOrder, NoChange, Ok(Machine))
    /\ phase' = "joined"

SubmitOrder ==
    /\ phase # "new"
    /\ \E o \in Orders : \E gw \in PlaceReplies(o) :
          Done("submitOrder", o, NoChange, submitOrder(Machine, o, gw))
    /\ UNCHANGED phase

CancelOrder ==
    /\ phase # "new"
    /\ \E o \in Orders : \E gwOk \in BOOLEAN :
          Done("cancelOrder", o, NoChange, cancelOrder(Machine, o, gwOk))
    /\ UNCHANGED phase

ApplyUpdate ==
    /\ phase # "new"
    /\ \E o \in Orders : \E cborder \in VenueOrders :
          Done("applyUpdate", o, NoChange, applyUpdate(Machine, o, cborder))
    /\ UNCHANGED phase

OnMatchEvent ==
    /\ phase \in {"running", "stopped"}
    /\ Len(userTradeQueue) < MaxQueue
    /\ \E match \in Matches :
          Done("onMatchEvent", NoOrder, NoChange, onMatchEvent(Machine, match))
    /\ UNCHANGED phase

OnChangeEvent ==
    /\ phase \in {"running", "stopped"}
    /\ \E change \in Changes : \E bal \in BalanceReplies :
          Done("onChangeEvent", activeOrders[change.order_id], change,
               onChangeEvent(Machine, change, bal))
    /\ UNCHANGED phase

\* The dispatch loop calls dispatch() only while eof() is false.
Dispatch ==
    /\ phase \in {"startFailed", "running", "stopped"}
    /\ ~eof
    /\ \E bal \in BalanceReplies :
          DoneOf("dispatch", NoOrder, NoChange, NoRequest,
                 IF userTradeQueue = <<>> THEN NoMatch ELSE Head(userTradeQueue),
                 dispatch(Machine, bal))
    /\ UNCHANGED phase

Next ==
    \/ Start
    \/ Stop
    \/ Join
    \/ SubmitOrder
    \/ CancelOrder
    \/ ApplyUpdate
    \/ OnMatchEvent
    \/ OnChangeEvent
    \/ Dispatch

Spec == Init /\ [][Next]_vars

\* ------------------------------------------------- the registry on its own
\* _registerOrder and _unregisterOrder called on any registry the broker can
\* hold: every order has a venue id or none, a registered order is filed under
\* its own id, and no two registered orders share an id.
RegistryInit ==
    /\ \E ids \in [Orders -> Ids \cup {NoId}] : \E sts \in [Orders -> States] :
       \E types \in [Orders -> Types] : \E reg \in SUBSET Orders :
          /\ \A o \in reg : ids[o] # NoId /\ sts[o] # "INITIAL"
          /\ \A o1 \in reg : \A o2 \in reg : ids[o1] = ids[o2] => o1 = o2
          /\ orders = [o \in Orders |->
                         [NewOrder(types[o]) EXCEPT !.id = ids[o], !.state = sts[o]]]
          /\ activeOrders = [i \in Ids |->
                               IF \E o \in reg : ids[o] = i
                               THEN CHOOSE o \in reg : ids[o] = i ELSE NoOrder]
    /\ cash = 0
    /\ shares = 0
    /\ stop = FALSE
    /\ userTradeQueue = <<>>
    /\ phase = "running"
    /\ announced = {}
    /\ last = [op |-> "init", order |-> NoOrder, change |-> NoChange,
               request |-> NoRequest, match |-> NoMatch, ret |-> "ok", err |-> "",
               events |-> <<>>, calls |-> <<>>]
    /\ BookInit

RegisterOrder ==
    /\ \E o \in Orders : Done("_registerOrder", o, NoChange, _registerOrder(Machine, o))
    /\ UNCHANGED phase

UnregisterOrder ==
    /\ \E o \in Orders : Done("_unregisterOrder", o, NoChange, _unregisterOrder(Machine, o))
    /\ UNCHANGED phase

RegistryNext ==
    \/ RegisterOrder
    \/ UnregisterOrder

RegistrySpec == RegistryInit /\ [][RegistryNext]_vars

\* ------------------------------------------------- order entry on its own
\* The factory methods and submitOrder on a running broker, with every order
\* object a caller can hold: of any type and for any instrument, built by the
\* factory methods or constructed directly.
OrderEntryInit ==
    /\ \E types \in [Orders -> Types] : \E instruments \in [Orders -> Instruments] :
          orders = [o \in Orders |->
                      [NewOrder(types[o]) EXCEPT !.instrument = instruments[o]]]
    /\ activeOrders = [i \in Ids |-> NoOrder]
    /\ cash = 0
    /\ shares = 0
    /\ stop = FALSE
    /\ userTradeQueue = <<>>
    /\ phase = "running"
    /\ announced = {}
    /\ last = [op |-> "init", order |-> NoOrder, change |-> NoChange,
               request |-> NoRequest, match |-> NoMatch, ret |-> "ok", err |-> "",
               events |-> <<>>, calls |-> <<>>]
    /\ BookInit

CreateMarketOrder ==
    /\ \E request \in Requests : \E traitsOk \in BOOLEAN :
          DoneOf("createMarketOrder", NoOrder, NoChange, request, NoMatch,
                 createMarketOrder(Machine, request, traitsOk))
    /\ UNCHANGED phase

CreateLimitOrder ==
    /\ \E request \in Requests : \E traitsOk \in BOOLEAN :
          DoneOf("createLimitOrder", NoOrder, NoChange, request, NoMatch,
                 createLimitOrder(Machine, request, traitsOk))
    /\ UNCHANGED phase

CreateStopOrder ==
    /\ \E request \in Requests :
          DoneOf("createStopOrder", NoOrder, NoChange, request, NoMatch,
                 createStopOrder(Machine, request))
    /\ UNCHANGED phase

CreateStopLimitOrder ==
    /\ \E request \in Requests :
          DoneOf("createStopLimitOrder", NoOrder, NoChange, request, NoMatch,
                 createStopLimitOrder(Machine, request))
    /\ UNCHANGED phase

OrderEntryNext ==
    \/ CreateMarketOrder
    \/ CreateLimitOrder
    \/ CreateStopOrder
    \/ CreateStopLimitOrder
    \/ SubmitOrder

OrderEntrySpec == OrderEntryInit /\ [][OrderEntryNext]_vars

\* ------------------------------------------------- OrderStateChange on its own
\* Every venue order push OrderStateChange can be built from: any message type,
\* with or without a reason and a remaining size.
Pushes ==
    [order_id : Ids, type : {"received", "open", "done", "match"},
     reason : {"", "filled", "canceled"}, remaining_size : RemainingSizes,
     price : {MatchPrice}]

\* An order with quantity MaxQty of which n is filled.
FilledOrder(n) ==
    [OpenOrder(1) EXCEPT !.filled = n,
                         !.state = IF n = 0 THEN "ACCEPTED" ELSE "PARTIALLY_FILLED",
                         !.execs = IF n = 0 THEN <<>>
                                   ELSE <<[price |-> MatchPrice, size |-> n, fee |-> 0,
                                           present |-> TRUE]>>]

NormalizeInit ==
    /\ \E n \in 0 .. (MaxQty - 1) : orders = [o \in Orders |-> FilledOrder(n)]
    /\ activeOrders = [i \in Ids |-> NoOrder]
    /\ cash = 0
    /\ shares = 0
    /\ stop = FALSE
    /\ userTradeQueue = <<>>
    /\ phase = "new"
    /\ announced = {}
    /\ last = [op |-> "init", order |-> NoOrder, change |-> NoChange,
               new_state |-> NoState, event_type |-> NoState, oei |-> NoOei]
    /\ BookInit

\* OrderStateChange(json): the properties new_state and event_type, and oei(order).
Normalize ==
    /\ \E json \in Pushes : \E o \in Orders :
          last' = [op |-> "OrderStateChange", order |-> o, change |-> json,
                   new_state |-> new_state(json), event_type |-> event_type(json),
                   oei |-> oei(json, orders[o])]
    /\ UNCHANGED <<orders, activeOrders, cash, shares, stop, userTradeQueue, phase,
                   announced, bookVars>>

NormalizeSpec == NormalizeInit /\ [][Normalize]_vars

\* ------------------------------------------------- the websocket client on its own
\* What a stream message is, by its stream type and, for a depth update, by its
\* message type and side.
Shape(m) ==
    IF m.e \notin {"depthUpdate", "trade"} THEN "unknown stream"
    ELSE IF m.e = "trade" THEN "trade"
    ELSE IF m.type \notin {"received", "open", "done", "match", "change"}
    THEN "unknown type"
    ELSE IF m.side \notin {"buy", "sell"} THEN "unknown side"
    ELSE "depth"

WsDoneOf(op, shape, u, r) ==
    /\ \A p \in Prices : /\ LevelSize(r.b.book.bids, p) <= MaxSize
                         /\ LevelSize(r.b.book.asks, p) <= MaxSize
    /\ Len(r.b.buffer) <= MaxBuffer
    /\ book' = r.b.book
    /\ syncState' = r.b.state
    /\ syncTs' = r.b.ts
    /\ syncBuffer' = r.b.buffer
    /\ wsLast' = [op |-> op, shape |-> shape, update |-> u, outcome |-> r.outcome,
                  ret |-> r.ret, events |-> r.b.events, calls |-> r.b.calls,
                  held |-> syncBuffer]
    /\ UNCHANGED brokerVars

WsDone(op, u, r) == WsDoneOf(op, "", u, r)

\* The connection opens, or opens again after it was lost.
OnOpened ==
    /\ syncState \in {"NONE", "SYNCING", "LIVE"}
    /\ \E reply \in BookReplies :
          WsDone("onOpened", NoUpdate, onOpened(WsMachine, reply))

OnMessage ==
    /\ syncState # "NONE"
    /\ \E m \in StreamMessages :
          WsDoneOf("onMessage", Shape(m),
                   IF m.e = "depthUpdate" /\ toBookMessages(m).ok
                   THEN MarketUpdate(toBookMessages(m).bms) ELSE NoUpdate,
                   onMessage(WsMachine, m))

BookNext ==
    \/ OnOpened
    \/ OnMessage

\* The websocket client next to a broker that is left alone.
BookSpecInit ==
    /\ BrokerInit({}, [o \in Orders |-> "LIMIT"])
    /\ BookInit

BookSpec == BookSpecInit /\ [][BookNext]_vars

\* ------------------------------------------------- the synchronizer on its own
\* The synchronizer as onOpened constructs it, driven through its two entry
\* points in any order: stream updates may arrive before the snapshot does.
SyncInit ==
    /\ BrokerInit({}, [o \in Orders |-> "LIMIT"])
    /\ book = EmptyBook
    /\ syncState = "SYNCING"
    /\ syncTs = 0
    /\ syncBuffer = <<>>
    /\ wsLast = [op |-> "StreamSynchronizer", shape |-> "", update |-> NoUpdate,
                 outcome |-> "", ret |-> "ok", events |-> <<>>, calls |-> <<>>,
                 held |-> <<>>]

SubmitStreamdata ==
    /\ syncState \in {"SYNCING", "LIVE"}
    /\ \E m \in StreamMessages :
          /\ m.e = "depthUpdate"
          /\ toBookMessages(m).ok
          /\ LET u == MarketUpdate(toBookMessages(m).bms) IN
             WsDone("submit_streamdata", u, submit_streamdata(WsMachine, u))

SubmitSyncdata ==
    /\ syncState = "SYNCING"
    /\ \E reply \in BookReplies :
          /\ reply.ok
          /\ LET syncdata == book_snapshot(reply) IN
             WsDone("submit_syncdata", syncdata, submit_syncdata(WsMachine, syncdata))

SyncNext ==
    \/ SubmitStreamdata
    \/ SubmitSyncdata

SyncSpec == SyncInit /\ [][SyncNext]_vars

\* ------------------------------------------------- the order book on its own
\* Every delta an OrderBook can be given, a zero size included.
Deltas ==
    {Delta(kind, seq, price, size, side) :
        kind \in Kinds, seq \in 1 .. MaxSeq, price \in Prices, size \in 0 .. MaxSize,
        side \in Sides}

\* OrderBook.update with one delta.
UpdateBook ==
    /\ syncState = "NONE"
    /\ \E d \in Deltas :
          LET u == MarketUpdate(<<d>>) IN
          WsDone("update", u, WsOk([WsMachine EXCEPT !.book = BookUpdate(@, u)], "delta"))

\* OrderBook.update with a snapshot.
UpdateBookFull ==
    /\ syncState = "NONE"
    /\ \E reply \in BookReplies :
          /\ reply.ok
          /\ LET syncdata == book_snapshot(reply) IN
             WsDone("update", syncdata,
                    WsOk([WsMachine EXCEPT !.book = BookReplace(@, syncdata)], "snapshot"))

OrderBookNext ==
    \/ UpdateBook
    \/ UpdateBookFull

OrderBookSpec == BookSpecInit /\ [][OrderBookNext]_vars

\* ------------------------------------------------------------- properties
\* The order is in the active-order map under its venue id.
InMap(active, os, o) == os[o].id # NoId /\ active[os[o].id] = o

BrokerUnchanged ==
    /\ orders' = orders
    /\ activeOrders' = activeOrders
    /\ cash' = cash
    /\ shares' = shares
    /\ stop' = stop
    /\ userTradeQueue' = userTradeQueue

PlaceCalls == {"limitorder", "marketorder"}

EventsOfType(events, type) == {i \in 1 .. Len(events) : events[i].type = type}

\* C1: submitOrder on an order that is not Initial raises "already processed"
\* and has no side effect: the order, the active-order map, the balances and the
\* stop flag are unchanged, no gateway call is made and no event is emitted.
C1_SubmitNonInitialRejected ==
    [][\A o \in Orders :
         (last'.op = "submitOrder" /\ last'.order = o /\ orders[o].state # "INITIAL")
         => /\ last'.ret = "raised"
            /\ last'.err = "already processed"
            /\ BrokerUnchanged
            /\ last'.calls = <<>>
            /\ last'.events = <<>>]_vars

C1_Witness ==
    /\ last.op = "submitOrder"
    /\ last.err = "already processed"
    /\ orders[last.order].state = "ACCEPTED"

\* C2: when the gateway call placing the order fails, submitOrder raises, the
\* order is still Initial without an id, it is not in the active-order map and no
\* SUBMITTED event was emitted.
C2_GatewayFailureLeavesInitial ==
    (/\ last.op = "submitOrder"
     /\ \E i \in 1 .. Len(last.calls) :
            last.calls[i].name \in PlaceCalls /\ ~last.calls[i].ok)
    => /\ last.ret = "raised"
       /\ orders[last.order].state = "INITIAL"
       /\ orders[last.order].id = NoId
       /\ \A i \in Ids : activeOrders[i] # last.order
       /\ EventsOfType(last.events, "SUBMITTED") = {}

C2_Witness ==
    /\ last.op = "submitOrder"
    /\ last.calls = <<[name |-> "limitorder", ok |-> FALSE]>>
    /\ last.err = "gateway"

C4_StaleCancelRejected ==
    [][\A o \in Orders :
         (/\ last'.op = "cancelOrder"
          /\ last'.order = o
          /\ \/ ~InMap(activeOrders, orders, o)
             \/ orders[o].state = "FILLED")
         => /\ last'.ret = "raised"
            /\ last'.calls = <<>>
            /\ BrokerUnchanged]_vars

C4_Witness ==
    /\ last.op = "cancelOrder"
    /\ last.ret = "raised"
    /\ InMap(activeOrders, orders, last.order)
    /\ orders[last.order].state = "FILLED"

\* A cancelOrder that passes its checks makes the one gateway call and changes
\* nothing locally.
CancelFrame ==
    \A o \in Orders :
        (/\ last'.op = "cancelOrder"
         /\ last'.order = o
         /\ InMap(activeOrders, orders, o)
         /\ orders[o].state # "FILLED")
        => /\ Len(last'.calls) = 1
           /\ last'.calls[1].name = "cancelOrder"
           /\ last'.ret = (IF last'.calls[1].ok THEN "ok" ELSE "raised")
           /\ BrokerUnchanged
           /\ last'.events = <<>>

\* C5 (as stated): a cancelOrder that passes its checks sends the cancel request
\* and changes no local state, and the canceled order leaves the active-order
\* map only by the processing of an order-status change.
C5_LeavesOnlyByStatusChange ==
    [][/\ CancelFrame
       /\ \A o \in Orders :
            (/\ last.op = "cancelOrder"
             /\ last.ret = "ok"
             /\ last.order = o
             /\ InMap(activeOrders, orders, o)
             /\ ~InMap(activeOrders', orders', o))
            => last'.op \in {"onChangeEvent", "applyUpdate"}]_vars

\* C5 (amended): a cancelOrder that passes its checks sends the cancel request
\* and changes no local state; an order leaves the active-order map only by the
\* processing of an order-status change (a push, or a venue order record given
\* to applyUpdate) or of a trade match.
C5_CancelChangesNothing ==
    [][/\ CancelFrame
       /\ \A o \in Orders :
            (InMap(activeOrders, orders, o) /\ ~InMap(activeOrders', orders', o))
            => last'.op \in {"onChangeEvent", "applyUpdate", "dispatch"}]_vars

C5_Witness ==
    /\ last.op = "cancelOrder"
    /\ last.ret = "ok"
    /\ InMap(activeOrders, orders, last.order)
    /\ orders[last.order].state = "PARTIALLY_FILLED"

\* The registered orders a trade match references, and the one that takes the fill.
Referenced(match) ==
    {activeOrders[i] : i \in {match.a, match.b} \cap ActiveIds(activeOrders)}

Target(match) ==
    IF match.a \in ActiveIds(activeOrders) THEN activeOrders[match.a]
    ELSE activeOrders[match.b]

\* The dequeued match appended one execution to order o and one event carries
\* it: FILLED and unregistered when nothing remains, PARTIALLY_FILLED and
\* still registered otherwise.
FillRecorded(o, match) ==
    /\ Len(orders'[o].execs) = Len(orders[o].execs) + 1
    /\ SubSeq(orders'[o].execs, 1, Len(orders[o].execs)) = orders[o].execs
    /\ orders'[o].execs[Len(orders'[o].execs)].size = match.size
    /\ orders'[o].filled = orders[o].filled + match.size
    /\ \A x \in Orders \ {o} : orders'[x] = orders[x]
    /\ Len(last'.events) = 1
    /\ last'.events[1].order = o
    /\ last'.events[1].oei = orders'[o].execs[Len(orders'[o].execs)]
    /\ IF orders'[o].filled = orders'[o].quantity
       THEN /\ last'.events[1].type = "FILLED"
            /\ orders'[o].state = "FILLED"
            /\ ~InMap(activeOrders', orders', o)
       ELSE /\ last'.events[1].type = "PARTIALLY_FILLED"
            /\ orders'[o].state = "PARTIALLY_FILLED"
            /\ InMap(activeOrders', orders', o)

TradeStep == last'.op = "dispatch" /\ userTradeQueue # <<>>

TradeIgnored ==
    /\ last'.ret = "False"
    /\ orders' = orders
    /\ activeOrders' = activeOrders
    /\ cash' = cash
    /\ shares' = shares
    /\ stop' = stop
    /\ last'.calls = <<>>
    /\ last'.events = <<>>

C8_UnknownOrNoopChangeIgnored ==
    [][(/\ last'.op = "onChangeEvent"
        /\ \/ activeOrders[last'.change.order_id] = NoOrder
           \/ new_state(last'.change) = NoState)
       => /\ last'.ret = "ok"
          /\ BrokerUnchanged
          /\ last'.calls = <<>>
          /\ last'.events = <<>>]_vars

C8_Witness ==
    /\ last.op = "onChangeEvent"
    /\ activeOrders[last.change.order_id] # NoOrder
    /\ last.change.type = "open"
    /\ orders[activeOrders[last.change.order_id]].state = "SUBMITTED"

\* C9: an order-status change that is not ignored and is processed to the end
\* emits exactly one order event, after the state switch.
C9_OneEventPerChange ==
    [][(/\ last'.op = "onChangeEvent"
        /\ activeOrders[last'.change.order_id] # NoOrder
        /\ new_state(last'.change) # NoState
        /\ last'.ret = "ok")
       => /\ Len(last'.events) = 1
          /\ last'.events[1].state = new_state(last'.change)]_vars

\* C10: when the processing of an order-status change leaves its order in a
\* terminal state, the order is no longer in the active-order map and a balance
\* refresh was triggered.
C10_TerminalUnregisteredAndRefreshed ==
    (/\ last.op = "onChangeEvent"
     /\ last.order # NoOrder
     /\ new_state(last.change) # NoState
     /\ orders[last.order].state \in Terminal)
    => /\ ~InMap(activeOrders, orders, last.order)
       /\ \E i \in 1 .. Len(last.calls) : last.calls[i].name = "balances"

\* C11: no order reaches two distinct terminal states: once an order is Filled,
\* Canceled or Rejected its state never changes again, and no switch of its state
\* is attempted (an attempt on a terminal order is the "invalid transition" that
\* the processing of an order-status change raises).
C11_NoTransitionAfterTerminal ==
    [][\A o \in Orders :
         /\ orders[o].state \in Terminal => orders'[o].state = orders[o].state
         /\ ~(/\ last'.op \in {"submitOrder", "dispatch", "onChangeEvent"}
              /\ last'.order = o
              /\ last'.err = "invalid transition"
              /\ orders'[o].state \in Terminal)]_vars

\* C12: once an event of a terminal type (FILLED, CANCELED) has been emitted for
\* an order, no further event is emitted for it, neither later in the same
\* handler nor by any later handler.
C12_NoEventAfterTerminalEvent ==
    [][\A i \in 1 .. Len(last'.events) :
         /\ last'.events[i].order \notin announced
         /\ \A j \in 1 .. (i - 1) :
               ~(/\ last'.events[j].order = last'.events[i].order
                 /\ last'.events[j].type \in Terminal)]_vars

RECURSIVE SumSizes(_)
SumSizes(execs) ==
    IF execs = <<>> THEN 0 ELSE Head(execs).size + SumSizes(Tail(execs))

\* C13: for every order the filled quantity never decreases and always equals
\* the sum of the sizes of the executions appended to it.
C13_FilledMonotoneAndSummed ==
    [][\A o \in Orders :
         /\ orders'[o].filled >= orders[o].filled
         /\ orders'[o].filled = SumSizes(orders'[o].execs)]_vars

\* C14: registering an order whose id is already in the active-order map, or
\* unregistering an order whose id is not in it, raises and leaves the map (and
\* everything else) unchanged; registering never replaces an existing entry.
C14_RegistryAssertions ==
    [][\A o \in Orders :
         /\ (/\ last'.op = "_registerOrder"
             /\ last'.order = o
             /\ orders[o].id # NoId
             /\ activeOrders[orders[o].id] # NoOrder)
            => (last'.ret = "raised" /\ last'.err = "assertion" /\ BrokerUnchanged)
         /\ (/\ last'.op = "_unregisterOrder"
             /\ last'.order = o
             /\ \/ orders[o].id = NoId
                \/ activeOrders[orders[o].id] = NoOrder)
            => (last'.ret = "raised" /\ last'.err = "assertion" /\ BrokerUnchanged)
         /\ last'.op = "_registerOrder"
            => \A i \in Ids : activeOrders[i] # NoOrder
                                => activeOrders'[i] = activeOrders[i]]_vars

C14_Witness ==
    /\ last.op = "_registerOrder"
    /\ last.err = "assertion"
    /\ orders[last.order].id # NoId
    /\ activeOrders[orders[last.order].id] # NoOrder

\* The gateway and monitor calls of start(), in the order the code makes them.
StartupCalls == <<"balances", "OpenOrders", "tradeMonitor.start">>

\* An order the venue holds open: it has a venue id and is not terminal.
VenueOpen(ord) == ord.id # NoId /\ isActive(ord)

\* C15: start() refreshes the balances, then fetches and registers the open
\* orders, then starts the trade monitor, each step only after the one before
\* succeeded, so the monitor starts with every open order registered; and when a
\* trade match or an order-status change is processed every open order is in the
\* active-order map.
C15_StartupOrder ==
    [][/\ last'.op = "start"
          => /\ Len(last'.calls) \in 1 .. Len(StartupCalls)
             /\ \A i \in 1 .. Len(last'.calls) :
                   /\ last'.calls[i].name = StartupCalls[i]
                   /\ i < Len(last'.calls) => last'.calls[i].ok
             /\ Len(last'.calls) = Len(StartupCalls)
                   => \A o \in Orders :
                        VenueOpen(orders[o]) => InMap(activeOrders', orders', o)
       /\ last'.op \in {"onMatchEvent", "onChangeEvent", "dispatch"}
          => \A o \in Orders :
               VenueOpen(orders[o]) => InMap(activeOrders, orders, o)]_vars

C15_Witness ==
    /\ last.op = "start"
    /\ last.ret = "ok"
    /\ \E o \in Orders : InMap(activeOrders, orders, o)

\* C16: when start() fails in any of its phases the stop flag is set as the
\* failure reaches the caller, eof() stays true afterwards and dispatch() is
\* never run on the broker whose start failed.
C16_FailedStartSetsStop ==
    /\ (last.op = "start" /\ last.ret = "raised") => eof
    /\ phase = "startFailed" => (eof /\ last.op # "dispatch")

C16_Witness ==
    /\ phase = "startFailed"
    /\ last.op = "start"
    /\ Len(last.calls) = 2
    /\ ~last.calls[2].ok

\* C17: when the balance refresh made while processing a trade match or an
\* order-status change fails, the handler raises and the stop flag is set, so
\* eof() is true.
C17_FailedRefreshSetsStop ==
    (/\ last.op \in {"dispatch", "onChangeEvent"}
     /\ \E i \in 1 .. Len(last.calls) :
            last.calls[i].name = "balances" /\ ~last.calls[i].ok)
    => (last.ret = "raised" /\ eof)

C17_Witness ==
    /\ last.op = "dispatch"
    /\ last.calls = <<[name |-> "balances", ok |-> FALSE]>>
    /\ eof

\* C18: an order-status change is applied to an order only when no trade match
\* for that order, delivered earlier, is still waiting to be applied.
C18_ChangeNeverOvertakesMatch ==
    [][(last'.op = "onChangeEvent" /\ ~ChangeIgnored(Machine, last'.change))
       => \A k \in 1 .. Len(userTradeQueue) :
            involves(userTradeQueue[k], ActiveIds(activeOrders))
                # last'.change.order_id]_vars

\* C19: once stop() has been called eof() is true in every later state.
C19_EofAfterStop == phase \in {"stopped", "joined"} => eof

\* C20: in LIVE an update whose sequence is not above the sequence applied last
\* is dropped: the book (levels and sequence), the synchronizer and the queue
\* are left as they were; an update is applied only when its sequence is above
\* it, and then becomes the sequence applied last.
C20_StaleDeltaDropped ==
    [][(wsLast'.op = "onMessage" /\ syncState = "LIVE" /\ wsLast'.update.data # <<>>)
       => LET seq == Head(wsLast'.update.data).seq IN
          /\ seq <= syncTs
             => /\ wsLast'.outcome = "dropped"
                /\ book' = book
                /\ syncTs' = syncTs
                /\ syncState' = syncState
                /\ wsLast'.events = <<>>
          /\ wsLast'.outcome = "applied"
             => (seq > syncTs /\ syncTs' = seq /\ book'.sequence >= seq)]_vars

C20_Witness ==
    /\ wsLast.op = "onMessage"
    /\ wsLast.outcome = "dropped"
    /\ syncState = "LIVE"
    /\ wsLast.update.data # <<>>
    /\ Head(wsLast.update.data).seq = syncTs
    /\ Head(wsLast.update.data).kind = "Decrease"
    /\ LevelSize(book.bids, Head(wsLast.update.data).price) > 0
    /\ Head(wsLast.update.data).side = "Bid"

\* The levels a snapshot gives one side of the book.
SnapshotLevels(syncdata, side) ==
    LET idx == {i \in 1 .. Len(syncdata.data) : syncdata.data[i].side = side} IN
    [p \in {syncdata.data[i].price : i \in idx} |->
        syncdata.data[CHOOSE i \in idx : syncdata.data[i].price = p].size]

\* The held-back updates that carry sequence s, in the order they arrived.
HeldAt(buffer, s) ==
    SelectSeq(buffer, LAMBDA u : u.data # <<>> /\ Head(u.data).seq = s)

\* The sequences from s on at which an update is held back.
HeldSeqs(buffer, s) == {t \in s .. MaxSeq : HeldAt(buffer, t) # <<>>}

\* The book after the held-back updates from sequence s on were applied in
\* ascending sequence order (of several with one sequence, the first: the others
\* are then stale).
RECURSIVE SpliceFrom(_, _, _)
SpliceFrom(bk, buffer, s) ==
    IF s > MaxSeq THEN bk
    ELSE SpliceFrom(IF HeldAt(buffer, s) = <<>> THEN bk
                    ELSE ApplyDeltas(bk, Head(HeldAt(buffer, s)).data),
                    buffer, s + 1)

FailedFetches ==
    {i \in 1 .. Len(wsLast.calls) :
        wsLast.calls[i].name = "book_snapshot" /\ ~wsLast.calls[i].ok}

\* C22: while the synchronizer is SYNCING no book is exposed (a callback that
\* leaves it SYNCING emitted no book-update event), and a snapshot fetch that
\* failed leaves it SYNCING with the fetch made again.
C22_SyncingHidesBookAndRetries ==
    /\ syncState = "SYNCING"
       => \A i \in 1 .. Len(wsLast.events) : wsLast.events[i] # "ON_ORDER_BOOK_UPDATE"
    /\ \A i \in FailedFetches :
          /\ syncState = "SYNCING"
          /\ \E j \in (i + 1) .. Len(wsLast.calls) : wsLast.calls[j].name = "book_snapshot"

\* C23: every delta applied in LIVE emits exactly one book-update event, and
\* every application of a snapshot emits a full-snapshot event.
C23_EventPerApplication ==
    /\ (wsLast.op = "onMessage" /\ wsLast.outcome = "applied")
       => wsLast.events = <<"ON_ORDER_BOOK_UPDATE">>
    /\ (wsLast.op = "onOpened" /\ wsLast.outcome = "synced")
       => \E i \in 1 .. Len(wsLast.events) : wsLast.events[i] = "ON_ORDER_BOOK_SNAPSHOT"

\* C24: a gap detected in LIVE (an update whose sequence is not the one that
\* follows the sequence applied last, but a later one) is not applied to the
\* book: the local book is discarded, the synchronizer is SYNCING again and the
\* snapshot is fetched again.
C24_GapForcesResync ==
    [][(/\ wsLast'.op = "onMessage"
        /\ syncState = "LIVE"
        /\ wsLast'.update.data # <<>>
        /\ Head(wsLast'.update.data).seq > syncTs + 1)
       => /\ wsLast'.outcome # "applied"
          /\ \A i \in 1 .. Len(wsLast'.events) :
                wsLast'.events[i] # "ON_ORDER_BOOK_UPDATE"
          /\ book' = EmptyBook
          /\ syncState' = "SYNCING"
          /\ \E i \in 1 .. Len(wsLast'.calls) :
                wsLast'.calls[i].name = "book_snapshot"]_vars

C26_MalformedDropped ==
    [][(/\ wsLast'.op = "onMessage"
        /\ wsLast'.shape \in {"unknown side", "unknown type", "unknown stream"})
       => /\ wsLast'.ret = "ok"
          /\ wsLast'.events = <<>>
          /\ book' = book
          /\ syncState' = syncState
          /\ syncTs' = syncTs
          /\ syncBuffer' = syncBuffer]_vars

\* C27: creating a stop or stop-limit order, creating an order for an instrument
\* other than the configured pair, and submitting an order that is of a type
\* other than Limit or Market or for another instrument, is rejected (the call
\* raises) and no gateway call is made for it.
C27_UnsupportedRejected ==
    [][/\ last'.op \in {"createStopOrder", "createStopLimitOrder"}
          => (last'.ret = "raised" /\ last'.calls = <<>>)
       /\ (/\ last'.op \in {"createMarketOrder", "createLimitOrder"}
           /\ last'.request.instrument # Symbol)
          => (last'.ret = "raised" /\ last'.calls = <<>>)
       /\ \A o \in Orders :
            (/\ last'.op = "submitOrder"
             /\ last'.order = o
             /\ \/ orders[o].type \notin {"LIMIT", "MARKET"}
                \/ orders[o].instrument # Symbol)
            => (last'.ret = "raised" /\ last'.calls = <<>>)]_vars

\* C28: after every broker operation on a started broker (submitOrder,
\* cancelOrder, trade-match dispatch, order-status change, applyUpdate), whether it
\* completed or failed, the active-order map holds exactly the orders that have a
\* venue id and are in a non-terminal state.
C28_MapHoldsExactlyOpenOrders ==
    (/\ phase \in {"running", "stopped", "joined"}
     /\ last.op \in {"submitOrder", "cancelOrder", "dispatch", "onChangeEvent",
                     "applyUpdate"})
    => \A o \in Orders : Registered(activeOrders, o) <=> VenueOpen(orders[o])

C30_PushNormalization ==
    last.op = "OrderStateChange"
    => LET json == last.change
           ord == orders[last.order]
           filledOut == /\ json.type = "done"
                        /\ json.reason = "filled"
                        /\ json.remaining_size.present
                        /\ json.remaining_size.val = 0
           expected == IF json.type = "received" THEN "ACCEPTED"
                       ELSE IF filledOut THEN "FILLED"
                       ELSE IF json.type = "done" THEN "CANCELED"
                       ELSE NoState
       IN /\ last.new_state = expected
          /\ last.event_type = expected
          /\ last.oei.present <=> (json.reason = "filled")
          /\ last.oei.present
             => last.oei.size = (ord.quantity - ord.filled) - json.remaining_size.val

====
